---- MODULE Spec2Model ----
(***************************************************************************)
(* Segregated free-list allocator of src/mm.c (mm_init, mm_malloc,         *)
(* mm_free, mm_realloc and their helpers) as a state machine.              *)
(*                                                                         *)
(* The heap is an array of 4-byte words.  A word address is the index of   *)
(* the word counted from mem_heap_lo, so byte address = WSIZE * index      *)
(* (mem_heap_lo is 16-byte aligned).  A boundary tag is one word: bit 0 is *)
(* the in-use bit and the remaining 31 bits hold the size in words.        *)
(* Every C function is an operator from a machine state record to a        *)
(* machine state record (and a return value), composed in the order of     *)
(* the C statements.                                                       *)
(*                                                                         *)
(* Scope: size_t arithmetic is modulo 2^SizeBits; the heap stays far below *)
(* 2^30 words, so the 31-bit size field of a tag and the int argument of   *)
(* mem_sbrk never truncate.  Request sizes are multiples of WSIZE, so      *)
(* byte ranges are whole words.  mem_sbrk, the list primitives of list.h   *)
(* and ALIGNMENT of config.h are collaborators outside mm.c: mem_sbrk      *)
(* returns the old break or fails with NULL, the lists are kept as         *)
(* sequences of block addresses, and ALIGNMENT is 16 as the comment on     *)
(* struct block says.                                                      *)
(***************************************************************************)
EXTENDS Integers, Sequences, FiniteSets, TLC

VARIABLES mem, brk, heap_listp, segregatedList, fault,
          phase, live, last, pre, hist, nops

vars == <<mem, brk, heap_listp, segregatedList, fault, phase, live, last, pre, hist, nops>>

(* ------------------------------ constants ------------------------------ *)
WSIZE == 4
MIN_BLOCK_SIZE_WORDS == 8
CHUNKSIZE == 128
NUM_SIZE_CLASSES == 10
ALIGNMENT == 16
FIT_COUNT_LIMIT == 5
NULL == -1
FreshWord == 0
LinkWord == -2

(* ------------------------------- bounds -------------------------------- *)
\* size_t is SizeBits wide: arithmetic on request sizes is modulo 2^SizeBits.
SizeBits == 12
\* mem_sbrk fails once the heap would exceed MaxHeapWords words.
MaxHeapWords == 264
\* Number of client steps explored from the state before mm_init.
MaxOps == 4
\* Number of client steps explored from each of the prepared heaps below.
WarmOps == 2

SizeMod == 2 ^ SizeBits
\* Request sizes (bytes) the client uses: zero, the minimum block, a 12-word
\* block, a block larger than one chunk (remapped 448 -> 512), the next
\* larger size that is not remapped, and a size whose normalization wraps
\* around.
Sizes == {0, 24, 40, 448, 456, SizeMod - 4}

Min(S) == CHOOSE x \in S : \A y \in S : x <= y

(* --------------------------- boundary tags ----------------------------- *)
boundary_tag(inuse, size) == 2 * size + inuse
tag_inuse(w) == (w % 2) = 1
tag_size(w) == w \div 2
FENCE == boundary_tag(1, 0)

max(x, y) == IF x > y THEN x ELSE y

\* Faulty variant of align: the size is not rounded up to ALIGNMENT.
align_no_round(size) == size % SizeMod

align(size) ==
    LET t == (size + ALIGNMENT - 1) % SizeMod
    IN  t - (t % ALIGNMENT)

(* ------------------------------- memory -------------------------------- *)
\* The mapped words are 0 .. brk-1 (mem_heap_lo .. mem_heap_hi).
InHeap(s, a) == a >= 0 /\ a < s.brk

Rd(s, a) == IF InHeap(s, a) THEN s.mem[a] ELSE FreshWord

Wr(s, a, v) ==
    IF InHeap(s, a)
    THEN [s EXCEPT !.mem[a] = v]
    ELSE [s EXCEPT !.fault = TRUE]

abort_unless(s, cond) == IF cond THEN s ELSE [s EXCEPT !.fault = TRUE]

\* mem_sbrk(incr): the heap grows by incr bytes at its end, or the call fails.
\* s.fuel is the number of calls the environment still lets succeed.
mem_sbrk(s, incr) ==
    LET words == incr \div WSIZE
    IN  IF s.fuel > 0 /\ s.brk + words <= MaxHeapWords
        THEN [s   |-> [s EXCEPT !.mem  = [a \in 0 .. (s.brk + words - 1) |->
                                            IF a < s.brk THEN s.mem[a] ELSE FreshWord],
                                !.brk  = s.brk + words,
                                !.fuel = s.fuel - 1,
                                !.sbrk = "ok"],
              ret |-> s.brk]
        ELSE [s |-> [s EXCEPT !.sbrk = "fail"], ret |-> NULL]

(* ---------------------------- block layout ----------------------------- *)
payload(blk) == blk + 1
block_of(ptr) == ptr - 1

prev_blk_footer(blk) == blk - 1
blk_free(s, blk) == ~tag_inuse(Rd(s, blk))
blk_size(s, blk) == tag_size(Rd(s, blk))
prev_blk(s, blk) == blk - tag_size(Rd(s, prev_blk_footer(blk)))
next_blk(s, blk) == blk + blk_size(s, blk)
get_footer(s, blk) == blk + blk_size(s, blk) - 1

\* Faulty variant of set_header_and_footer: the footer copy is left out.
set_header_only(s, blk, size, inuse) == Wr(s, blk, boundary_tag(inuse, size))

set_header_and_footer(s, blk, size, inuse) ==
    LET s1 == Wr(s, blk, boundary_tag(inuse, size))
    IN  Wr(s1, get_footer(s1, blk), Rd(s1, blk))

mark_block_used(s, blk, size) == set_header_and_footer(s, blk, size, 1)
mark_block_free(s, blk, size) == set_header_and_footer(s, blk, size, 0)

(* ------------------------- intrusive free lists ------------------------ *)
\* struct list_elem (two 8-byte links) lies at byte offset 8 of the block.
list_push_front(s, i, blk) ==
    IF InHeap(s, blk + 2) /\ InHeap(s, blk + 5)
    THEN [s EXCEPT !.segregatedList[i] = <<blk>> \o @,
                   !.mem[blk + 2] = LinkWord, !.mem[blk + 3] = LinkWord,
                   !.mem[blk + 4] = LinkWord, !.mem[blk + 5] = LinkWord]
    ELSE [s EXCEPT !.fault = TRUE]

InList(s, i, blk) == \E k \in 1 .. Len(s.segregatedList[i]) : s.segregatedList[i][k] = blk

\* list_remove unlinks the element from the list it is on; unlinking an
\* element that is on no list follows stale links.
list_remove(s, blk) ==
    IF \E i \in 0 .. (NUM_SIZE_CLASSES - 1) : InList(s, i, blk)
    THEN [s EXCEPT !.segregatedList =
              [i \in DOMAIN @ |-> SelectSeq(@[i], LAMBDA x : x # blk)]]
    ELSE [s EXCEPT !.fault = TRUE]

\* Faulty variant of the bucket choice: strict comparisons, so a block of
\* exactly 128 words goes to the second list.
SizeClass_strict(blkSize) ==
    IF blkSize < 128 THEN 0
    ELSE IF blkSize < 256 THEN 1
    ELSE IF blkSize < 512 THEN 2
    ELSE IF blkSize < 1024 THEN 3
    ELSE IF blkSize < 2048 THEN 4
    ELSE IF blkSize < 4096 THEN 5
    ELSE IF blkSize < 8192 THEN 6
    ELSE IF blkSize < 16384 THEN 7
    ELSE IF blkSize < 32768 THEN 8
    ELSE 9

SizeClass(blkSize) ==
    IF blkSize <= 128 THEN 0
    ELSE IF blkSize <= 256 THEN 1
    ELSE IF blkSize <= 512 THEN 2
    ELSE IF blkSize <= 1024 THEN 3
    ELSE IF blkSize <= 2048 THEN 4
    ELSE IF blkSize <= 4096 THEN 5
    ELSE IF blkSize <= 8192 THEN 6
    ELSE IF blkSize <= 16384 THEN 7
    ELSE IF blkSize <= 32768 THEN 8
    ELSE 9

segregatedListAdd(s, bp) == list_push_front(s, SizeClass(blk_size(s, bp)), bp)

(* ------------------------------ coalesce ------------------------------- *)
\* Faulty variant of coalesce: a free predecessor is merged only when the
\* successor is free as well.
coalesce_no_left_merge(s0, bp) ==
    LET prev_alloc == tag_inuse(Rd(s0, prev_blk_footer(bp)))
        next_alloc == ~blk_free(s0, next_blk(s0, bp))
        size       == blk_size(s0, bp)
        s          == abort_unless(s0, size > 0)
    IN  IF next_alloc
        THEN [s |-> segregatedListAdd(s, bp), ret |-> bp]
        ELSE IF prev_alloc /\ ~next_alloc
        THEN LET s1 == list_remove(s, next_blk(s, bp))
                 s2 == mark_block_free(s1, bp, size + blk_size(s1, next_blk(s1, bp)))
             IN  [s |-> segregatedListAdd(s2, bp), ret |-> bp]
        ELSE LET s1 == list_remove(s, prev_blk(s, bp))
                 s2 == list_remove(s1, next_blk(s1, bp))
                 s3 == mark_block_free(s2, prev_blk(s2, bp),
                           size + blk_size(s2, next_blk(s2, bp))
                                + blk_size(s2, prev_blk(s2, bp)))
                 b1 == prev_blk(s3, bp)
             IN  [s |-> segregatedListAdd(s3, b1), ret |-> b1]

\* Faulty variant of coalesce: the block is listed without merging.
coalesce_no_merge(s0, bp) == [s |-> segregatedListAdd(s0, bp), ret |-> bp]

coalesce(s0, bp) ==
    LET prev_alloc == tag_inuse(Rd(s0, prev_blk_footer(bp)))
        next_alloc == ~blk_free(s0, next_blk(s0, bp))
        size       == blk_size(s0, bp)
        s          == abort_unless(s0, size > 0)
    IN  IF prev_alloc /\ next_alloc
        THEN [s |-> segregatedListAdd(s, bp), ret |-> bp]
        ELSE IF prev_alloc /\ ~next_alloc
        THEN LET s1 == list_remove(s, next_blk(s, bp))
                 s2 == mark_block_free(s1, bp, size + blk_size(s1, next_blk(s1, bp)))
             IN  [s |-> segregatedListAdd(s2, bp), ret |-> bp]
        ELSE IF ~prev_alloc /\ next_alloc
        THEN LET s1 == list_remove(s, prev_blk(s, bp))
                 b1 == prev_blk(s1, bp)
                 s2 == mark_block_free(s1, b1, size + blk_size(s1, b1))
             IN  [s |-> segregatedListAdd(s2, b1), ret |-> b1]
        ELSE LET s1 == list_remove(s, prev_blk(s, bp))
                 s2 == list_remove(s1, next_blk(s1, bp))
                 s3 == mark_block_free(s2, prev_blk(s2, bp),
                           size + blk_size(s2, next_blk(s2, bp))
                                + blk_size(s2, prev_blk(s2, bp)))
                 b1 == prev_blk(s3, bp)
             IN  [s |-> segregatedListAdd(s3, b1), ret |-> b1]

(* ----------------------------- extend_heap ----------------------------- *)
\* Faulty variant of extend_heap: the new epilogue header is not written.
extend_heap_no_epilogue(s, words) ==
    LET g == mem_sbrk(s, words * WSIZE)
    IN  IF g.ret = NULL
        THEN [s |-> g.s, ret |-> NULL]
        ELSE LET blk == g.ret - 1
                 s1  == mark_block_free(g.s, blk, words)
             IN  coalesce(s1, blk)

extend_heap(s, words) ==
    LET g == mem_sbrk(s, words * WSIZE)
    IN  IF g.ret = NULL
        THEN [s |-> g.s, ret |-> NULL]
        ELSE LET blk == g.ret - 1
                 s1  == mark_block_free(g.s, blk, words)
                 s2  == Wr(s1, next_blk(s1, blk), FENCE)
             IN  coalesce(s2, blk)

(* ------------------------------- mm_init ------------------------------- *)
mm_init(s) ==
    LET g == mem_sbrk(s, 4 * WSIZE)
    IN  IF g.ret = NULL
        THEN [s |-> g.s, ret |-> -1]
        ELSE LET initial == g.ret
                 s1 == [g.s EXCEPT !.segregatedList =
                            [i \in 0 .. (NUM_SIZE_CLASSES - 1) |-> << >>]]
                 s2 == Wr(s1, initial + 2, FENCE)
                 s3 == [s2 EXCEPT !.heap_listp = initial + 3]
                 s4 == Wr(s3, initial + 3, FENCE)
                 e  == extend_heap(s4, CHUNKSIZE)
             IN  IF e.ret = NULL
                 THEN [s |-> e.s, ret |-> -1]
                 ELSE [s |-> e.s, ret |-> 0]

(* -------------------------------- place -------------------------------- *)
\* Faulty variant of place: after the split bp is not advanced to the
\* remainder, so the free tag and the list entry land on the allocated part.
place_no_advance(s0, bp, asize) ==
    LET s     == abort_unless(s0, asize > 0)
        csize == blk_size(s, bp)
        s1    == list_remove(s, bp)
    IN  IF csize - asize >= MIN_BLOCK_SIZE_WORDS
        THEN LET s2 == mark_block_used(s1, bp, asize)
                 s3 == mark_block_free(s2, bp, csize - asize)
             IN  segregatedListAdd(s3, bp)
        ELSE mark_block_used(s1, bp, csize)

\* Faulty variant of place: a remainder of exactly MIN_BLOCK_SIZE_WORDS is
\* not split off.
place_split_above_min(s0, bp, asize) ==
    LET s     == abort_unless(s0, asize > 0)
        csize == blk_size(s, bp)
        s1    == list_remove(s, bp)
    IN  IF csize - asize > MIN_BLOCK_SIZE_WORDS
        THEN LET s2 == mark_block_used(s1, bp, asize)
                 b2 == next_blk(s2, bp)
                 s3 == mark_block_free(s2, b2, csize - asize)
             IN  segregatedListAdd(s3, b2)
        ELSE mark_block_used(s1, bp, csize)

place(s0, bp, asize) ==
    LET s     == abort_unless(s0, asize > 0)
        csize == blk_size(s, bp)
        s1    == list_remove(s, bp)
    IN  IF csize - asize >= MIN_BLOCK_SIZE_WORDS
        THEN LET s2 == mark_block_used(s1, bp, asize)
                 b2 == next_blk(s2, bp)
                 s3 == mark_block_free(s2, b2, csize - asize)
             IN  segregatedListAdd(s3, b2)
        ELSE mark_block_used(s1, bp, csize)

(* ------------------------------- find_fit ------------------------------ *)
\* Faulty variant of the scan: the loop steps to the next element before it
\* tests one, so the front of each list is never looked at.
find_in_list_skip_first(s, i, asize) ==
    LET L    == s.segregatedList[i]
        n    == IF Len(L) < FIT_COUNT_LIMIT - 1 THEN Len(L) ELSE FIT_COUNT_LIMIT - 1
        hits == {k \in 2 .. n : blk_free(s, L[k]) /\ asize <= blk_size(s, L[k])}
    IN  IF hits = {} THEN NULL ELSE L[Min(hits)]

\* Faulty variant of the scan: the element at which count reaches
\* FIT_COUNT_LIMIT is still tested.
find_in_list_test_then_break(s, i, asize) ==
    LET L    == s.segregatedList[i]
        n    == IF Len(L) < FIT_COUNT_LIMIT THEN Len(L) ELSE FIT_COUNT_LIMIT
        hits == {k \in 1 .. n : blk_free(s, L[k]) /\ asize <= blk_size(s, L[k])}
    IN  IF hits = {} THEN NULL ELSE L[Min(hits)]

\* The inner loop leaves the bucket when count reaches FIT_COUNT_LIMIT, before
\* it looks at that element.
find_in_list(s, i, asize) ==
    LET L    == s.segregatedList[i]
        n    == IF Len(L) < FIT_COUNT_LIMIT - 1 THEN Len(L) ELSE FIT_COUNT_LIMIT - 1
        hits == {k \in 1 .. n : blk_free(s, L[k]) /\ asize <= blk_size(s, L[k])}
    IN  IF hits = {} THEN NULL ELSE L[Min(hits)]

find_fit(s, asize) ==
    LET C == {i \in 0 .. (NUM_SIZE_CLASSES - 1) : find_in_list(s, i, asize) # NULL}
    IN  IF C = {} THEN NULL ELSE find_in_list(s, Min(C), asize)

(* ------------------------------ mm_malloc ------------------------------ *)
\* Faulty variant of the replacement of sizes: only 448 is replaced.
remap_448_only(size) == IF size = 448 THEN 512 ELSE size

remap(size) == IF size = 448 THEN 512 ELSE IF size = 112 THEN 128 ELSE size

\* The adjusted block size in words that mm_malloc computes for a request
\* (when the overflow test passes).
malloc_awords(size0) ==
    max(MIN_BLOCK_SIZE_WORDS, align((remap(size0) + 2 * WSIZE) % SizeMod) \div WSIZE)

\* No fit found: e is what extend_heap returned (the block and the state).
malloc_extended(e, awords) ==
    IF e.ret = NULL
    THEN [s |-> e.s, ret |-> NULL]
    ELSE [s |-> place(e.s, e.ret, awords), ret |-> payload(e.ret)]

\* Faulty variant of mm_malloc: the overflow test on bsize is left out.
mm_malloc_no_overflow_test(s, size0) ==
    IF size0 = 0
    THEN [s |-> s, ret |-> NULL]
    ELSE LET size   == remap(size0)
             bsize  == align((size + 2 * WSIZE) % SizeMod)
             awords == max(MIN_BLOCK_SIZE_WORDS, bsize \div WSIZE)
             bp     == find_fit(s, awords)
         IN  IF bp # NULL
             THEN [s |-> place(s, bp, awords), ret |-> payload(bp)]
             ELSE malloc_extended(extend_heap(s, max(awords, CHUNKSIZE)), awords)

mm_malloc(s, size0) ==
    IF size0 = 0
    THEN [s |-> s, ret |-> NULL]
    ELSE LET size  == remap(size0)
             bsize == align((size + 2 * WSIZE) % SizeMod)
         IN  IF bsize < size
             THEN [s |-> s, ret |-> NULL]
             ELSE LET awords == malloc_awords(size0)
                      bp     == find_fit(s, awords)
                  IN  IF bp # NULL
                      THEN [s |-> place(s, bp, awords), ret |-> payload(bp)]
                      ELSE malloc_extended(extend_heap(s, max(awords, CHUNKSIZE)), awords)

(* ------------------------------- mm_free ------------------------------- *)
mm_free(s0, ptr) ==
    LET s == abort_unless(s0, s0.heap_listp # NULL)
    IN  IF ptr = NULL
        THEN s
        ELSE LET bp   == block_of(ptr)
                 size == blk_size(s, bp)
                 s1   == mark_block_free(s, bp, size)
             IN  coalesce(s1, bp).s

(* ------------------------------ mm_realloc ----------------------------- *)
\* memmove / memcpy of n bytes; request sizes are multiples of WSIZE, so the
\* copy is a whole number of words.  The source is read before any write.
memmove(s, dst, src, n) ==
    LET words == n \div WSIZE
    IN  IF words <= 0 \/ (InHeap(s, dst) /\ InHeap(s, dst + words - 1))
        THEN [s EXCEPT !.mem = [a \in 0 .. (s.brk - 1) |->
                 IF a >= dst /\ a < dst + words THEN Rd(s, src + (a - dst)) ELSE @[a]]]
        ELSE [s EXCEPT !.fault = TRUE]

\* The tests of the four in-place cases, in the order the code tries them.
realloc_case1_test(s, oldblock, prev_alloc, next_alloc, awords) ==
    /\ ~prev_alloc
    /\ next_alloc
    /\ blk_size(s, prev_blk(s, oldblock)) + blk_size(s, oldblock) >= awords

\* Faulty variant of the case 2 test: the merged size is not compared with
\* the size asked for.
realloc_case2_test_any_size(s, oldblock, prev_alloc, next_alloc, awords) ==
    /\ ~next_alloc
    /\ blk_size(s, next_blk(s, oldblock)) + blk_size(s, oldblock) >= 0

\* Faulty variant of the case 2 test: it also asks for an allocated
\* predecessor, as the comment above the case says.
realloc_case2_test_prev_alloc(s, oldblock, prev_alloc, next_alloc, awords) ==
    /\ prev_alloc
    /\ ~next_alloc
    /\ blk_size(s, next_blk(s, oldblock)) + blk_size(s, oldblock) >= awords

realloc_case2_test(s, oldblock, prev_alloc, next_alloc, awords) ==
    /\ ~next_alloc
    /\ blk_size(s, next_blk(s, oldblock)) + blk_size(s, oldblock) >= awords

\* Faulty variant of the case 4 test: the sum is the one of case 2, without
\* the predecessor.
realloc_case4_test_copied_sum(s, oldblock, prev_alloc, next_alloc, awords) ==
    /\ ~prev_alloc
    /\ ~next_alloc
    /\ blk_size(s, oldblock) + blk_size(s, next_blk(s, oldblock)) >= awords

realloc_case4_test(s, oldblock, prev_alloc, next_alloc, awords) ==
    /\ ~prev_alloc
    /\ ~next_alloc
    /\ blk_size(s, prev_blk(s, oldblock)) + blk_size(s, oldblock)
          + blk_size(s, next_blk(s, oldblock)) >= awords

\* next_blk is block address plus size: it is never the null pointer.
realloc_case5_test(s, oldblock, prev_alloc, next_alloc, awords) ==
    prev_alloc /\ next_blk(s, oldblock) = NULL

\* Faulty variant of the fallback: the old block is freed before the new
\* one is requested.
fallback_copy_only(m, ptr, size, oldpayloadsize) ==
    IF m.ret = NULL
    THEN [s |-> m.s, ret |-> NULL]
    ELSE [s |-> memmove(m.s, m.ret, ptr, IF size < oldpayloadsize THEN size ELSE oldpayloadsize),
          ret |-> m.ret]

realloc_fallback_free_first(s, ptr, size, oldpayloadsize) ==
    fallback_copy_only(mm_malloc(mm_free(s, ptr), size), ptr, size, oldpayloadsize)

\* Faulty variant of the end of the fallback: the old block is freed before
\* its bytes are copied.
fallback_free_copy(m, ptr, size, oldpayloadsize) ==
    IF m.ret = NULL
    THEN [s |-> m.s, ret |-> NULL]
    ELSE [s |-> memmove(mm_free(m.s, ptr), m.ret, ptr,
                        IF size < oldpayloadsize THEN size ELSE oldpayloadsize),
          ret |-> m.ret]

\* m is what mm_malloc returned (newptr and the state).
fallback_copy_free(m, ptr, size, oldpayloadsize) ==
    IF m.ret = NULL
    THEN [s |-> m.s, ret |-> NULL]
    ELSE [s |-> mm_free(memmove(m.s, m.ret, ptr,
                            IF size < oldpayloadsize THEN size ELSE oldpayloadsize), ptr),
          ret |-> m.ret]

\* Case 5 after its extend_heap call, whose result is not looked at.
realloc_case5(s, oldblock) ==
    [s   |-> mark_block_used(s, oldblock,
                 blk_size(s, next_blk(s, oldblock)) + blk_size(s, oldblock)),
     ret |-> payload(oldblock)]

\* Allocate, copy, free.
realloc_fallback(s, ptr, size, oldpayloadsize) ==
    fallback_copy_free(mm_malloc(s, size), ptr, size, oldpayloadsize)

realloc_resize(s0, ptr, size) ==
    LET oldblock       == block_of(ptr)
        oldpayloadsize == blk_size(s0, oldblock) * WSIZE - 2 * WSIZE
        s              == abort_unless(s0, oldpayloadsize > 0)
        prev_alloc     == tag_inuse(Rd(s, prev_blk_footer(oldblock)))
        next_alloc     == ~blk_free(s, next_blk(s, oldblock))
        bsize          == align((size + 2 * WSIZE) % SizeMod)
        awords         == max(MIN_BLOCK_SIZE_WORDS, bsize \div WSIZE)
    IN  IF bsize < size
        THEN [s |-> s, ret |-> NULL]
        ELSE IF realloc_case1_test(s, oldblock, prev_alloc, next_alloc, awords)
        THEN LET s1 == list_remove(s, prev_blk(s, oldblock))
                 ob == prev_blk(s1, oldblock)
                 s2 == mark_block_used(s1, ob,
                           blk_size(s1, next_blk(s1, ob)) + blk_size(s1, ob))
                 s3 == memmove(s2, payload(ob), ptr, oldpayloadsize)
             IN  [s |-> s3, ret |-> payload(ob)]
        ELSE IF realloc_case2_test(s, oldblock, prev_alloc, next_alloc, awords)
        THEN LET s1 == list_remove(s, next_blk(s, oldblock))
                 s2 == mark_block_used(s1, oldblock,
                           blk_size(s1, next_blk(s1, oldblock)) + blk_size(s1, oldblock))
             IN  [s |-> s2, ret |-> payload(oldblock)]
        ELSE IF realloc_case4_test(s, oldblock, prev_alloc, next_alloc, awords)
        THEN LET s1 == list_remove(s, next_blk(s, oldblock))
                 s2 == list_remove(s1, prev_blk(s1, oldblock))
                 s3 == mark_block_used(s2, prev_blk(s2, oldblock),
                           blk_size(s2, next_blk(s2, oldblock)) + blk_size(s2, oldblock)
                              + blk_size(s2, prev_blk(s2, oldblock)))
                 ob == prev_blk(s3, oldblock)
                 s4 == memmove(s3, payload(ob), ptr, oldpayloadsize)
             IN  [s |-> s4, ret |-> payload(ob)]
        ELSE IF realloc_case5_test(s, oldblock, prev_alloc, next_alloc, awords)
        THEN realloc_case5(extend_heap(s, CHUNKSIZE).s, oldblock)
        ELSE realloc_fallback(s, ptr, size, oldpayloadsize)

\* Faulty variant of mm_realloc: size 0 returns NULL without freeing.
mm_realloc_zero_no_free(s, ptr, size) ==
    IF size = 0
    THEN [s |-> s, ret |-> NULL]
    ELSE IF ptr = NULL
    THEN mm_malloc(s, size)
    ELSE realloc_resize(s, ptr, size)

mm_realloc(s, ptr, size) ==
    IF size = 0
    THEN [s |-> mm_free(s, ptr), ret |-> NULL]
    ELSE IF ptr = NULL
    THEN mm_malloc(s, size)
    ELSE realloc_resize(s, ptr, size)

(* ------------------------------ machine -------------------------------- *)
Machine(fuel) ==
    [mem |-> mem, brk |-> brk, heap_listp |-> heap_listp,
     segregatedList |-> segregatedList, fault |-> fault,
     fuel |-> fuel, sbrk |-> "none"]

Snapshot ==
    [mem |-> mem, brk |-> brk, segregatedList |-> segregatedList, live |-> live]

Commit(s) ==
    /\ mem' = s.mem
    /\ brk' = s.brk
    /\ heap_listp' = s.heap_listp
    /\ segregatedList' = s.segregatedList
    /\ fault' = s.fault

\* The record of a call: its arguments, its result, what its mem_sbrk call
\* answered, and the size in words the block of ptr had when it was made.
CallRecord(op, ptr, size, ret, sbrk, words) ==
    [op |-> op, ptr |-> ptr, size |-> size, ret |-> ret, sbrk |-> sbrk, words |-> words]

NoCall == CallRecord("none", NULL, 0, NULL, "none", 0)

\* What is remembered of the two calls before the last one: the call l just
\* before it when that was an mm_malloc or an mm_free, and the one before l
\* when l was an mm_free.
Earlier(l, h) ==
    << IF l.op \in {"malloc", "free"} THEN l ELSE NoCall,
       IF l.op = "free" THEN h[1] ELSE NoCall >>

(* The client: it keeps the pointers it was given (live maps each to the   *)
(* number of bytes it asked for) and passes only those, or NULL, back.     *)
LiveAdd(l, p, n) == [q \in (DOMAIN l) \cup {p} |-> IF q = p THEN n ELSE l[q]]
LiveDel(l, p) == [q \in (DOMAIN l) \ {p} |-> l[q]]

\* The client fills the bytes it asked for with a pattern of its own.
Pattern(p, k) == 1000 * p + k

Filled(m, p, n) == \A k \in 0 .. (n \div WSIZE - 1) : m[p + k] = Pattern(p, k)

Fill(m, b, p, n) ==
    [a \in 0 .. (b - 1) |-> IF a >= p /\ a < p + n \div WSIZE THEN Pattern(p, a - p) ELSE m[a]]

(* Prepared heaps: the exploration starts either before mm_init or from a  *)
(* heap that a fixed run of calls has built.  Each prepared heap is        *)
(* computed by applying the operations above to the state before mm_init,  *)
(* so it is a state the allocator reaches.  A run is a sequence of calls;  *)
(* "free" and "write" name their pointer by the position of the malloc     *)
(* that returned it.                                                       *)
Blank ==
    [s |-> [mem |-> << >>, brk |-> 0, heap_listp |-> NULL,
            segregatedList |-> [i \in 0 .. (NUM_SIZE_CLASSES - 1) |-> << >>],
            fault |-> FALSE, fuel |-> 0, sbrk |-> "none"],
     live |-> << >>, rets |-> << >>,
     last |-> NoCall, hist |-> <<NoCall, NoCall>>,
     pre |-> [mem |-> << >>, brk |-> 0,
              segregatedList |-> [i \in 0 .. (NUM_SIZE_CLASSES - 1) |-> << >>],
              live |-> << >>]]

\* The client's view after a call of the run returned r.
Called(c, r, newlive, rets, op, ptr, size) ==
    [s    |-> r.s, live |-> newlive, rets |-> rets,
     last |-> CallRecord(op, ptr, size, r.ret, r.s.sbrk,
                         IF ptr = NULL THEN 0 ELSE tag_size(c.s.mem[block_of(ptr)])),
     hist |-> Earlier(c.last, c.hist),
     pre  |-> [mem |-> [a \in 0 .. (c.s.brk - 1) |-> c.s.mem[a]], brk |-> c.s.brk,
               segregatedList |-> [i \in 0 .. (NUM_SIZE_CLASSES - 1) |-> c.s.segregatedList[i]],
               live |-> c.live]]

CalledMalloc(c, r, size) ==
    Called(c, r, IF r.ret = NULL THEN c.live ELSE LiveAdd(c.live, r.ret, size),
           Append(c.rets, r.ret), "malloc", NULL, size)

Call(c, o) ==
    LET s == [c.s EXCEPT !.fuel = 2, !.sbrk = "none"]
    IN  IF o.op = "init"
        THEN Called(c, mm_init(s), c.live, c.rets, "init", NULL, 0)
        ELSE IF o.op = "malloc"
        THEN CalledMalloc(c, mm_malloc(s, o.size), o.size)
        ELSE IF o.op = "free"
        THEN Called(c, [s |-> mm_free(s, c.rets[o.k]), ret |-> NULL],
                    LiveDel(c.live, c.rets[o.k]), c.rets, "free", c.rets[o.k], 0)
        ELSE IF c.rets[o.k] \in DOMAIN c.live
        THEN Called(c, [s |-> [s EXCEPT !.mem = Fill(c.s.mem, c.s.brk, c.rets[o.k],
                                                     c.live[c.rets[o.k]])],
                        ret |-> NULL],
                    c.live, c.rets, "write", c.rets[o.k], c.live[c.rets[o.k]])
        ELSE c

\* The calls are made one after the other; the run stops at a call that
\* leaves the allocator broken.
RECURSIVE Run(_, _)
Continue(c, calls) == IF c.s.fault THEN c ELSE Run(c, calls)
Run(c, calls) == IF calls = << >> THEN c ELSE Continue(Call(c, Head(calls)), Tail(calls))

M(n) == [op |-> "malloc", size |-> n]
F(k) == [op |-> "free", k |-> k]
W(k) == [op |-> "write", k |-> k]

\* One block larger than a chunk followed by three minimum blocks, all
\* filled; and the same heap with the first and the third block freed.
FourBlocks == <<[op |-> "init"], M(448), M(24), M(24), M(24), W(1), W(2), W(3), W(4)>>

\* Four live blocks of 8, 24, 12 and 84 words that fill the first chunk.
FullChunk == <<[op |-> "init"], M(24), M(88), M(40), M(328)>>

\* Four 8-word blocks and one 12-word block with live blocks between and
\* after them, freed so that the first free list holds the four small
\* blocks in front of the larger one and the chunk has no other free word.
FiveFree ==
    <<[op |-> "init"], M(24), M(24), M(24), M(24), M(24), M(24), M(24), M(24), M(40), M(200),
      F(9), F(1), F(3), F(5), F(7)>>

\* Each prepared heap with the number of client steps explored from it.
Prepared ==
    << [calls |-> FourBlocks,                  ops |-> WarmOps],
       [calls |-> FourBlocks \o <<F(1), F(3)>>, ops |-> WarmOps],
       [calls |-> FullChunk \o <<F(1), F(2)>>,  ops |-> WarmOps - 1],
       [calls |-> FullChunk \o <<F(2), F(3)>>,  ops |-> WarmOps - 1],
       [calls |-> FiveFree,                    ops |-> WarmOps - 1] >>

InitCold ==
    /\ mem = << >>
    /\ brk = 0
    /\ heap_listp = NULL
    /\ segregatedList = [i \in 0 .. (NUM_SIZE_CLASSES - 1) |-> << >>]
    /\ fault = FALSE
    /\ phase = "start"
    /\ live = << >>
    /\ last = NoCall
    /\ pre = Blank.pre
    /\ hist = Blank.hist
    /\ nops = 0

Started(c) ==
    /\ mem = c.s.mem
    /\ brk = c.s.brk
    /\ heap_listp = c.s.heap_listp
    /\ segregatedList = c.s.segregatedList
    /\ fault = c.s.fault
    /\ phase = "ready"
    /\ live = c.live
    /\ last = c.last
    /\ pre = c.pre
    /\ hist = c.hist

InitWarm ==
    \E i \in 1 .. Len(Prepared) :
        /\ Started(Run(Blank, Prepared[i].calls))
        /\ nops = IF MaxOps > Prepared[i].ops THEN MaxOps - Prepared[i].ops ELSE 0

Init == InitCold \/ InitWarm

\* The call returned r: the globals and the heap are as it left them.
Returned(r, op, ptr, size) ==
    /\ Commit(r.s)
    /\ last' = CallRecord(op, ptr, size, r.ret, r.s.sbrk,
                          IF ptr = NULL THEN 0 ELSE tag_size(mem[block_of(ptr)]))
    /\ hist' = Earlier(last, hist)
    /\ pre' = Snapshot

MmInit ==
    /\ phase = "start"
    /\ \E fuel \in 0 .. 2 : Returned(mm_init(Machine(fuel)), "init", NULL, 0)
    /\ phase' = IF last'.ret = 0 THEN "ready" ELSE "failed"
    /\ UNCHANGED <<live, nops>>

Ready == phase = "ready" /\ ~fault /\ nops < MaxOps

\* After two calls of mm_free in a row the client may ask for as many bytes
\* as the payloads of the two freed blocks held together.
ReuseSizes ==
    IF last.op = "free" /\ last.ptr # NULL /\ hist[1].op = "free" /\ hist[1].ptr # NULL
    THEN {(last.words + hist[1].words) * WSIZE - 4 * WSIZE}
    ELSE {}

Malloc ==
    /\ Ready
    /\ \E size \in Sizes \cup ReuseSizes, fuel \in 0 .. 1 :
         /\ Returned(mm_malloc(Machine(fuel), size), "malloc", NULL, size)
         /\ live' = IF last'.ret = NULL THEN live ELSE LiveAdd(live, last'.ret, size)
    /\ nops' = nops + 1
    /\ UNCHANGED phase

Free ==
    /\ Ready
    /\ \E ptr \in (DOMAIN live) \cup {NULL} :
         /\ Returned([s |-> mm_free(Machine(0), ptr), ret |-> NULL], "free", ptr, 0)
         /\ live' = LiveDel(live, ptr)
    /\ nops' = nops + 1
    /\ UNCHANGED phase

Realloc ==
    /\ Ready
    /\ \E ptr \in (DOMAIN live) \cup {NULL}, size \in Sizes, fuel \in 0 .. 1 :
         /\ Returned(mm_realloc(Machine(fuel), ptr, size), "realloc", ptr, size)
         /\ live' = IF size = 0 THEN LiveDel(live, ptr)
                    ELSE IF last'.ret = NULL THEN live
                    ELSE LiveAdd(LiveDel(live, ptr), last'.ret, size)
    /\ nops' = nops + 1
    /\ UNCHANGED phase

UserWrite ==
    /\ Ready
    /\ \E p \in DOMAIN live :
         /\ ~Filled(mem, p, live[p])
         /\ mem' = Fill(mem, brk, p, live[p])
         /\ last' = CallRecord("write", p, live[p], NULL, "none", 0)
    /\ hist' = Earlier(last, hist)
    /\ pre' = Snapshot
    /\ nops' = nops + 1
    /\ UNCHANGED <<brk, heap_listp, segregatedList, fault, phase, live>>

Next == MmInit \/ Malloc \/ Free \/ Realloc \/ UserWrite

Spec == Init /\ [][Next]_vars

(* ======================================================================= *)
(*                               Properties                                *)
(* ======================================================================= *)
\* The arena as a reader of the tags sees it: the blocks met by walking
\* forward from heap_listp by header sizes, up to a zero-size tag.
RECURSIVE WalkFrom(_, _, _)
WalkFrom(m, b, a) ==
    IF a < 0 \/ a >= b \/ tag_size(m[a]) <= 0
    THEN << >>
    ELSE <<a>> \o WalkFrom(m, b, a + tag_size(m[a]))

SeqSet(q) == {q[k] : k \in 1 .. Len(q)}

RECURSIVE SumSizes(_, _)
SumSizes(m, q) == IF q = << >> THEN 0 ELSE tag_size(m[Head(q)]) + SumSizes(m, Tail(q))

Cur == [mem |-> mem, brk |-> brk, segregatedList |-> segregatedList]
BlockSeq == WalkFrom(mem, brk, heap_listp)
Blocks == SeqSet(BlockSeq)
WalkEnd == heap_listp + SumSizes(mem, BlockSeq)
PreBlocks == SeqSet(WalkFrom(pre.mem, pre.brk, heap_listp))

\* The machine state the last call started from, with the outcome of its
\* mem_sbrk call (if any) as the environment's answer.
PreMachine ==
    [mem |-> pre.mem, brk |-> pre.brk, heap_listp |-> heap_listp,
     segregatedList |-> pre.segregatedList, fault |-> FALSE,
     fuel |-> IF last.sbrk = "fail" THEN 0 ELSE 1, sbrk |-> "none"]

SameAs(s) == mem = s.mem /\ brk = s.brk /\ segregatedList = s.segregatedList
SameResult(r) == last.ret = r.ret /\ SameAs(r.s)

SameAllocatorState ==
    /\ mem = pre.mem
    /\ brk = pre.brk
    /\ segregatedList = pre.segregatedList

\* The places <<list, position>> at which b occurs in the lists L.
Listed(L, b) ==
    UNION {{<<i, k>> : k \in {j \in 1 .. Len(L[i]) : L[i][j] = b}} :
               i \in 0 .. (NUM_SIZE_CLASSES - 1)}

\* Request arithmetic in unbounded integers, as the claims state it.
RoundUp16(n) == ((n + 15) \div 16) * 16
Overflows(n) == RoundUp16(n + 8) >= SizeMod
NeedWords(n) == max(8, RoundUp16(n + 8) \div 4)
PayloadWords(n) == (n + WSIZE - 1) \div WSIZE
LiveRange(p) == p .. (p + PayloadWords(live[p]) - 1)
PayloadOf(m, b) == (b + 1) .. (b + tag_size(m[b]) - 2)

\* No call wrote outside the heap, unlinked an element that is on no list,
\* or failed one of the code's assertions.
NoFault == ~fault

IsPublicCall == last.op \in {"init", "malloc", "free", "realloc"}

(* ------------------------------------------------------------------ C1 *)
\* C1 (no overlap): in every state after mm_init the payload word ranges of
\* the live allocations are pairwise disjoint, and each live payload lies
\* inside exactly one block of the arena whose tag is marked in-use (the
\* block that starts one word before the pointer).
C1_NoOverlap ==
    phase = "ready" =>
        \A p \in DOMAIN live :
            /\ {b \in Blocks : tag_inuse(mem[b]) /\ LiveRange(p) \subseteq PayloadOf(mem, b)}
                  = {block_of(p)}
            /\ \A q \in DOMAIN live : q # p => LiveRange(p) \cap LiveRange(q) = {}

C1_Witness ==
    /\ phase = "ready"
    /\ Cardinality(DOMAIN live) >= 2
    /\ last.op = "realloc"
    /\ last.ptr # NULL
    /\ last.ret \notin {NULL, last.ptr}

(* ------------------------------------------------------------------ C2 *)
\* C2 (alignment): every non-null address returned by mm_malloc or
\* mm_realloc is 0 mod 16, every block starts at byte offset 12 mod 16 and
\* every block size is a multiple of 4 words.
C2_Alignment ==
    phase = "ready" =>
        /\ \A b \in Blocks : (WSIZE * b) % 16 = 12 /\ tag_size(mem[b]) % 4 = 0
        /\ \A p \in DOMAIN live : (WSIZE * p) % 16 = 0
        /\ (last.op \in {"malloc", "realloc"} /\ last.ret # NULL)
              => (WSIZE * last.ret) % 16 = 0

C2_Witness ==
    /\ phase = "ready"
    /\ last.op \in {"malloc", "realloc"}
    /\ last.ret # NULL
    /\ brk > CHUNKSIZE + 4
    /\ \E b \in Blocks : ~tag_inuse(mem[b])
    /\ \E b \in Blocks : tag_inuse(mem[b]) /\ tag_size(mem[b]) > CHUNKSIZE

(* ------------------------------------------------------------------ C3 *)
\* C3 (no adjacent free blocks): after any public operation has returned,
\* no two physically adjacent blocks of the arena are both free.
C3_NoAdjacentFree ==
    heap_listp # NULL =>
        \A k \in 1 .. (Len(BlockSeq) - 1) :
            ~(blk_free(Cur, BlockSeq[k]) /\ blk_free(Cur, BlockSeq[k + 1]))

\* mm_free of a block whose two neighbours were both free.
C3_Witness ==
    /\ last.op = "free"
    /\ last.ptr # NULL
    /\ ~tag_inuse(pre.mem[prev_blk_footer(block_of(last.ptr))])
    /\ blk_free(pre, next_blk(pre, block_of(last.ptr)))

(* ------------------------------------------------------------------ C4 *)
\* C4 (free-list membership): after any public operation has returned,
\* every free block occurs exactly once in the ten lists, in the bucket for
\* its size (<=128, <=256, ..., <=32768, else the last), and every list
\* element is the start of a free block.
BucketFor(size) ==
    IF \E i \in 0 .. 8 : size <= 128 * 2 ^ i
    THEN Min({i \in 0 .. 8 : size <= 128 * 2 ^ i})
    ELSE 9

C4_FreeListMembership ==
    heap_listp # NULL =>
        /\ \A b \in Blocks :
              ~tag_inuse(mem[b]) =>
                  /\ Cardinality(Listed(segregatedList, b)) = 1
                  /\ \A ik \in Listed(segregatedList, b) : ik[1] = BucketFor(tag_size(mem[b]))
        /\ \A i \in 0 .. (NUM_SIZE_CLASSES - 1) :
              \A k \in 1 .. Len(segregatedList[i]) :
                  /\ segregatedList[i][k] \in Blocks
                  /\ ~tag_inuse(mem[segregatedList[i][k]])

\* Free blocks in two different buckets, one of them above the first.
C4_Witness ==
    /\ phase = "ready"
    /\ IsPublicCall
    /\ segregatedList[0] # << >>
    /\ \E i \in 1 .. (NUM_SIZE_CLASSES - 1) : segregatedList[i] # << >>

(* ------------------------------------------------------------------ C5 *)
\* C5 (arena well-formedness): after mm_init returned 0, the word before
\* the first block is a fence, the walk from the first block meets only
\* blocks of at least 8 words and ends on a fence that is the last word of
\* the arena, and the block sizes add up to the words obtained after the
\* initial four.
C5_ArenaWellFormed ==
    phase = "ready" =>
        /\ mem[heap_listp - 1] = FENCE
        /\ \A b \in Blocks : tag_size(mem[b]) >= 8
        /\ WalkEnd = brk - 1
        /\ mem[WalkEnd] = FENCE
        /\ SumSizes(mem, BlockSeq) = brk - 4

C5_Witness ==
    /\ phase = "ready"
    /\ brk > CHUNKSIZE + 4
    /\ Len(BlockSeq) >= 3
    /\ last.op = "realloc"
    /\ last.ret # NULL

(* ------------------------------------------------------------------ C6 *)
\* C6 (boundary-tag consistency): after any public operation has returned,
\* the footer of every block equals its header, and the predecessor lookup
\* through the previous footer gives the start of the preceding block.
C6_TagConsistency ==
    heap_listp # NULL =>
        /\ \A b \in Blocks : mem[b + tag_size(mem[b]) - 1] = mem[b]
        /\ \A k \in 2 .. Len(BlockSeq) : prev_blk(Cur, BlockSeq[k]) = BlockSeq[k - 1]

\* A heap extension merged with a free tail and then split.
C6_Witness ==
    /\ phase = "ready"
    /\ last.op = "malloc"
    /\ last.sbrk = "ok"
    /\ Len(BlockSeq) >= 3
    /\ ~tag_inuse(mem[BlockSeq[Len(BlockSeq)]])

(* ------------------------------------------------------------------ C7 *)
\* C7 (fallback safety): if mm_realloc(p, n) with p live and n > 0 returns
\* null, the call changed nothing: same memory (so p's block is allocated
\* with the same size and contents), same arena size, same free lists.
C7_FallbackSafety ==
    (last.op = "realloc" /\ last.ptr # NULL /\ last.size > 0 /\ last.ret = NULL) =>
        /\ SameAllocatorState
        /\ live = pre.live
        /\ tag_inuse(mem[block_of(last.ptr)])

\* The allocate+copy+free path failed because the heap could not grow.
C7_Witness ==
    /\ last.op = "realloc"
    /\ last.ptr # NULL
    /\ last.size > 0
    /\ last.ret = NULL
    /\ last.sbrk = "fail"

(* ------------------------------------------------------------------ C8 *)
\* C8 (allocate failure conditions): mm_malloc(n) returns null exactly when
\* n = 0, or the normalization of n overflows, or the fit search finds no
\* block and mem_sbrk fails; in each of these cases nothing is changed.
C8_MallocFailure ==
    last.op = "malloc" =>
        LET n == last.size
            w == max(MIN_BLOCK_SIZE_WORDS, RoundUp16(remap(n) + 8) \div WSIZE)
        IN  /\ (last.ret = NULL) <=>
                  \/ n = 0
                  \/ Overflows(remap(n))
                  \/ (find_fit(PreMachine, w) = NULL /\ last.sbrk = "fail")
            /\ (last.ret = NULL) => SameAllocatorState /\ live = pre.live

\* No fit and no growth.
C8_Witness ==
    /\ last.op = "malloc"
    /\ last.size > 0
    /\ ~Overflows(last.size)
    /\ last.ret = NULL
    /\ last.sbrk = "fail"

(* ------------------------------------------------------------------ C9 *)
\* C9 (resize special cases): mm_realloc(p, 0) returns null and leaves the
\* state mm_free(p) leaves (nothing changes for p = null);
\* mm_realloc(null, n) with n > 0 returns what mm_malloc(n) returns and
\* leaves the state mm_malloc(n) leaves.
C9_ResizeSpecialCases ==
    /\ (last.op = "realloc" /\ last.size = 0) =>
          /\ last.ret = NULL
          /\ SameAs(mm_free(PreMachine, last.ptr))
          /\ last.ptr = NULL => SameAllocatorState
          /\ last.ptr # NULL => ~tag_inuse(mem[block_of(last.ptr)])
    /\ (last.op = "realloc" /\ last.ptr = NULL /\ last.size > 0) =>
          SameResult(mm_malloc(PreMachine, last.size))

\* mm_realloc(p, 0) on a live block with a free neighbour.
C9_Witness ==
    /\ last.op = "realloc"
    /\ last.size = 0
    /\ last.ptr # NULL
    /\ blk_free(pre, next_blk(pre, block_of(last.ptr)))
    /\ Cardinality(DOMAIN live) >= 1

C11_DataPreserved ==
    (last.op = "realloc" /\ last.ptr # NULL /\ last.size > 0 /\ last.ret # NULL) =>
        LET old  == last.words * WSIZE - 2 * WSIZE
            keep == (IF last.size < old THEN last.size ELSE old) \div WSIZE
        IN  /\ \A k \in 0 .. (keep - 1) : mem[last.ret + k] = pre.mem[last.ptr + k]
            /\ \A q \in (DOMAIN pre.live) \ {last.ptr} :
                  \A a \in PayloadOf(pre.mem, block_of(q)) : mem[a] = pre.mem[a]

\* A resize that moved a filled payload to a lower, overlapping or adjacent
\* address while another allocation was live.
C11_Witness ==
    /\ last.op = "realloc"
    /\ last.ptr # NULL
    /\ last.size > 0
    /\ last.ret # NULL
    /\ last.ret < last.ptr
    /\ Filled(pre.mem, last.ptr, pre.live[last.ptr])
    /\ Cardinality(DOMAIN pre.live) >= 2

(* ----------------------------------------------------------------- C12 *)
\* The last three calls were a = mm_malloc(n), mm_free(a), b = mm_malloc(m)
\* with a non-null and n >= m > 0.
ReuseCase ==
    /\ last.op = "malloc"
    /\ last.size > 0
    /\ hist[1].op = "free"
    /\ hist[1].ptr # NULL
    /\ hist[2].op = "malloc"
    /\ hist[2].ret = hist[1].ptr
    /\ hist[2].size >= last.size

\* C12 as stated (free/reuse): in that case b is non-null and the second
\* mm_malloc leaves the arena size as it was.
C12_FreeReuseAsStated ==
    ReuseCase => (last.ret # NULL /\ brk = pre.brk)

\* C12 as amended: the same, for sizes whose needed word counts, taken
\* after mm_malloc has replaced 448 by 512 and 112 by 128, are ordered as
\* the sizes are.
C12_FreeReuse ==
    (ReuseCase /\ NeedWords(remap(last.size)) <= NeedWords(remap(hist[2].size))) =>
        (last.ret # NULL /\ brk = pre.brk)

\* A smaller request served from the block just freed.
C12_Witness ==
    /\ ReuseCase
    /\ NeedWords(remap(last.size)) <= NeedWords(remap(hist[2].size))
    /\ last.size < hist[2].size
    /\ last.ret = hist[1].ptr

(* ----------------------------------------------------------------- C13 *)
\* The last three calls were mm_free(A), mm_free(B) and an mm_malloc of the
\* payload bytes of A plus those of B, where A, B and a third live block C
\* lay one after the other.
AdjacentFreed ==
    /\ last.op = "malloc"
    /\ hist[1].op = "free"
    /\ hist[1].ptr # NULL
    /\ hist[2].op = "free"
    /\ hist[2].ptr # NULL
    /\ block_of(hist[1].ptr) = block_of(hist[2].ptr) + hist[2].words
    /\ payload(block_of(hist[1].ptr) + hist[1].words) \in DOMAIN pre.live
    /\ last.size = (hist[2].words + hist[1].words) * WSIZE - 4 * WSIZE

\* C13 as stated (coalescing enables reuse): that mm_malloc succeeds and
\* leaves the arena size as it was.
C13_CoalescedReuseAsStated ==
    AdjacentFreed => (last.ret # NULL /\ brk = pre.brk)

\* C13 as amended: the same, unless the byte count is one of the two sizes
\* (112 and 448) that mm_malloc replaces by a larger one.
C13_CoalescedReuse ==
    (AdjacentFreed /\ last.size \notin {112, 448}) =>
        (last.ret # NULL /\ brk = pre.brk)

\* The request was served at the address of A, with A's predecessor and C
\* still allocated.
C13_Witness ==
    /\ AdjacentFreed
    /\ last.size \notin {112, 448}
    /\ last.ret = hist[2].ptr
    /\ tag_inuse(mem[prev_blk_footer(block_of(hist[2].ptr))])

(* ----------------------------------------------------------------- C14 *)
\* mm_realloc(p, n) was called on a live block that ends at the epilogue
\* fence, has an allocated predecessor and is too small for n, and mem_sbrk
\* did not refuse.
EdgeResizeCase ==
    /\ last.op = "realloc"
    /\ last.ptr # NULL
    /\ last.size > 0
    /\ ~Overflows(last.size)
    /\ last.sbrk # "fail"
    /\ block_of(last.ptr) + last.words = pre.brk - 1
    /\ pre.mem[pre.brk - 1] = FENCE
    /\ tag_inuse(pre.mem[prev_blk_footer(block_of(last.ptr))])
    /\ last.words < NeedWords(last.size)

\* C14 as stated (resize at the arena edge): in that case the heap grows by
\* CHUNKSIZE words, the block absorbs the new tail, and p is returned.
C14_EdgeResizeAsStated ==
    EdgeResizeCase =>
        /\ last.ret = last.ptr
        /\ brk = pre.brk + CHUNKSIZE
        /\ tag_inuse(mem[block_of(last.ptr)])
        /\ tag_size(mem[block_of(last.ptr)]) = last.words + CHUNKSIZE

(* ----------------------------------------------------------------- C15 *)
\* The block of the last call's pointer as it was before the call, with its
\* neighbours.
OldBlock == block_of(last.ptr)
OldPred == prev_blk(pre, OldBlock)
OldSucc == OldBlock + last.words
PredWasFree == ~tag_inuse(pre.mem[prev_blk_footer(OldBlock)])
SuccWasFree == blk_free(pre, OldSucc)

\* The call returned the payload of the predecessor's start, which is now
\* one allocated block of the given size.
MergedLeft(size) ==
    /\ last.ret = payload(OldPred)
    /\ OldPred \in Blocks
    /\ tag_inuse(mem[OldPred])
    /\ tag_size(mem[OldPred]) = size
    /\ Listed(segregatedList, OldPred) = {}

\* C15 (resize by leftward merge): for mm_realloc(p, n) with p live, n > 0
\* and w words needed, (a) a free predecessor, an allocated successor and
\* size(pred) + size(block) >= w give the predecessor's payload address and
\* one allocated block of the two sizes, the predecessor unlisted; (b) two
\* free neighbours with size(block) + size(succ) < w and a three-way sum
\* >= w give the predecessor's payload address and one allocated block of
\* the three sizes, both neighbours unlisted.
C15_LeftwardMerge ==
    (last.op = "realloc" /\ last.ptr # NULL /\ last.size > 0) =>
        LET w  == NeedWords(last.size)
            sp == blk_size(pre, OldPred)
            sb == last.words
            ss == blk_size(pre, OldSucc)
        IN  /\ (PredWasFree /\ ~SuccWasFree /\ sp + sb >= w) => MergedLeft(sp + sb)
            /\ (PredWasFree /\ SuccWasFree /\ sb + ss < w /\ sp + sb + ss >= w) =>
                   (MergedLeft(sp + sb + ss) /\ Listed(segregatedList, OldSucc) = {})

\* The three-way merge.
C15_Witness ==
    /\ last.op = "realloc"
    /\ last.ptr # NULL
    /\ last.size > 0
    /\ PredWasFree
    /\ SuccWasFree
    /\ last.words + blk_size(pre, OldSucc) < NeedWords(last.size)
    /\ blk_size(pre, OldPred) + last.words + blk_size(pre, OldSucc) >= NeedWords(last.size)
    /\ last.ret = payload(OldPred)

(* ----------------------------------------------------------------- C16 *)
\* The positions among the first cap elements of list i at which a free
\* block of at least w words stands, and the block a first-fit search with
\* that cap returns: the first such block of the lowest such list.
FitPositions(L, m, i, w, cap) ==
    {k \in 1 .. Len(L[i]) : k <= cap /\ ~tag_inuse(m[L[i][k]]) /\ tag_size(m[L[i][k]]) >= w}

FirstFit(L, m, w, cap) ==
    LET C == {i \in 0 .. (NUM_SIZE_CLASSES - 1) : FitPositions(L, m, i, w, cap) # {}}
    IN  IF C = {} THEN NULL ELSE L[Min(C)][Min(FitPositions(L, m, Min(C), w, cap))]

\* mm_malloc's search agreed with a first fit capped at cap elements per
\* list: the block it placed was that fit, and it asked for more heap only
\* when there was none.
SearchedWithCap(cap) ==
    (last.op = "malloc" /\ last.size > 0 /\ ~Overflows(remap(last.size))) =>
        /\ find_fit(PreMachine, NeedWords(remap(last.size)))
              = FirstFit(pre.segregatedList, pre.mem, NeedWords(remap(last.size)), cap)
        /\ IF FirstFit(pre.segregatedList, pre.mem, NeedWords(remap(last.size)), cap) = NULL
           THEN last.sbrk # "none"
           ELSE /\ last.sbrk = "none"
                /\ last.ret = payload(FirstFit(pre.segregatedList, pre.mem,
                                               NeedWords(remap(last.size)), cap))

\* C16 as stated (bounded first-fit): the lists are searched in ascending
\* order and in each the first five elements are examined, so a fitting
\* block at position 5 is found.
C16_FirstFitOfFiveAsStated == SearchedWithCap(5)

\* C16 as amended: in each list the first four elements are examined; a
\* fitting block at position 5 is not found.
C16_FirstFitOfFour == SearchedWithCap(4)

\* The only fitting block stood at position 5 of its list and the search
\* found nothing.
C16_Witness ==
    /\ last.op = "malloc"
    /\ last.size > 0
    /\ ~Overflows(remap(last.size))
    /\ FirstFit(pre.segregatedList, pre.mem, NeedWords(remap(last.size)), 5) # NULL
    /\ FirstFit(pre.segregatedList, pre.mem, NeedWords(remap(last.size)), 4) = NULL
    /\ last.sbrk # "none"

(* ----------------------------------------------------------------- C17 *)
\* The request size after the replacement the amended claim names.
Replaced(n) == IF n = 448 THEN 512 ELSE IF n = 112 THEN 128 ELSE n

\* C17 as stated (size normalization): for n > 0 without overflow the word
\* count mm_malloc(n) works with is max(8, roundup16(n + 8) / 4).
C17_NormalizationAsStated ==
    (last.op = "malloc" /\ last.size > 0 /\ ~Overflows(last.size)) =>
        malloc_awords(last.size) = NeedWords(last.size)

\* C17 as amended: the word count is max(8, roundup16(n' + 8) / 4), where
\* n' is 512 for n = 448, 128 for n = 112 and n otherwise; the block
\* returned has at least that many words; and the count does not decrease
\* from n to n + 1 except at n = 112 and n = 448.  The last two parts do
\* not depend on the state and are evaluated in the states before mm_init.
C17_Normalization ==
    /\ (last.op = "malloc" /\ last.size > 0 /\ ~Overflows(Replaced(last.size))) =>
          /\ malloc_awords(last.size) = NeedWords(Replaced(last.size))
          /\ last.ret # NULL =>
                tag_size(mem[block_of(last.ret)]) >= NeedWords(Replaced(last.size))
    /\ phase = "start" =>
          \A n \in 1 .. (SizeMod - 2) :
              /\ ~Overflows(Replaced(n)) => malloc_awords(n) = NeedWords(Replaced(n))
              /\ (n \notin {112, 448} /\ ~Overflows(Replaced(n + 1))) =>
                    malloc_awords(n) <= malloc_awords(n + 1)

\* A request of 448 bytes was given a block of the 132 words that 512 bytes
\* need.
C17_Witness ==
    /\ last.op = "malloc"
    /\ last.size = 448
    /\ last.ret # NULL
    /\ tag_size(mem[block_of(last.ret)]) = NeedWords(512)
    /\ NeedWords(512) > NeedWords(448)

(* ----------------------------------------------------------------- C18 *)
\* The size in words of the free block the last mm_malloc placed its
\* request in: the block that was free at the returned address before the
\* call, plus the words the call added to the arena.
PlacedIn ==
    LET b == block_of(last.ret)
    IN  (IF Listed(pre.segregatedList, b) # {} THEN tag_size(pre.mem[b]) ELSE 0)
            + (brk - pre.brk)

\* The block at b of c words was split for a request of w words.
SplitAt(b, w, c) ==
    /\ mem[b] = boundary_tag(1, w)
    /\ mem[b + w - 1] = boundary_tag(1, w)
    /\ mem[b + w] = boundary_tag(0, c - w)
    /\ mem[b + c - 1] = boundary_tag(0, c - w)
    /\ b + w \in Blocks
    /\ Cardinality(Listed(segregatedList, b + w)) = 1
    /\ \A ik \in Listed(segregatedList, b + w) : ik[1] = BucketFor(c - w)
    /\ Listed(pre.segregatedList, b + w) = {}

\* The block at b of c words was handed out whole.
WholeAt(b, c) ==
    /\ mem[b] = boundary_tag(1, c)
    /\ mem[b + c - 1] = boundary_tag(1, c)

\* C18 (split policy of place): a successful mm_malloc that needs w words
\* and is placed in a free block of c >= w words returns a block of exactly
\* w words followed by one free block of c - w words, listed in the bucket
\* for c - w, when c - w >= 8, and the whole block of c words marked
\* allocated otherwise; the block returned has w to w + 7 words.
C18_SplitPolicy ==
    (last.op = "malloc" /\ last.ret # NULL) =>
        LET b == block_of(last.ret)
            w == malloc_awords(last.size)
        IN  /\ PlacedIn >= w
            /\ IF PlacedIn - w >= 8 THEN SplitAt(b, w, PlacedIn) ELSE WholeAt(b, PlacedIn)
            /\ tag_size(mem[b]) \in w .. (w + 7)

\* A block with a remainder of exactly 8 words was split, in a free block
\* found on a list.
C18_Witness ==
    /\ last.op = "malloc"
    /\ last.ret # NULL
    /\ last.sbrk = "none"
    /\ PlacedIn - malloc_awords(last.size) = 8
    /\ SplitAt(block_of(last.ret), malloc_awords(last.size), PlacedIn)

\* A block with a remainder of less than 8 words but more than none was
\* handed out whole.
C18_WitnessWhole ==
    /\ last.op = "malloc"
    /\ last.ret # NULL
    /\ PlacedIn - malloc_awords(last.size) \in 1 .. 7
    /\ WholeAt(block_of(last.ret), PlacedIn)

(* ----------------------------------------------------------------- C19 *)
\* The payload capacity in bytes of the block at b.
Capacity(b) == tag_size(mem[b]) * WSIZE - 2 * WSIZE

\* C19 (sufficient capacity): every non-null result of mm_malloc(n) and of
\* mm_realloc(p, n) with n > 0 whose normalization does not overflow is the
\* payload of an allocated block with room for at least n bytes between
\* its two tags.
C19_SufficientCapacity ==
    (/\ last.op \in {"malloc", "realloc"}
     /\ last.size > 0
     /\ last.ret # NULL
     /\ ~Overflows(last.size)) =>
        /\ block_of(last.ret) \in Blocks
        /\ tag_inuse(mem[block_of(last.ret)])
        /\ Capacity(block_of(last.ret)) >= last.size

\* A resize in place, by taking in the free successor, to more bytes than
\* the block could hold before.
C19_Witness ==
    /\ last.op = "realloc"
    /\ last.ptr # NULL
    /\ last.ret = last.ptr
    /\ brk = pre.brk
    /\ last.size > last.words * WSIZE - 2 * WSIZE
    /\ Capacity(block_of(last.ret)) >= last.size

\* A resize in place that moved the payload to the free predecessor, to more
\* bytes than the block could hold before.
C19_WitnessLeft ==
    /\ last.op = "realloc"
    /\ last.ptr # NULL
    /\ last.ret # NULL
    /\ last.ret < last.ptr
    /\ last.ret + tag_size(mem[block_of(last.ret)]) > last.ptr
    /\ last.size > last.words * WSIZE - 2 * WSIZE
    /\ Capacity(block_of(last.ret)) >= last.size
====
